---- MODULE Spec2Model ----
(***************************************************************************)
(* Portfolio simulation engine of bitcoin-bot: the Investor contract and   *)
(* its two policies, SpotInvestor and MarginInvestor                       *)
(* (src/agents/investors/basic/*.py).                                      *)
(*                                                                         *)
(* Numbers.  The program computes with floats; the model computes with     *)
(* exact fixed-point integers:                                             *)
(*   - a close price is a small positive integer (price units);            *)
(*   - take-profit / stop-loss percentages are in units of 1/PctScale      *)
(*     (1.05 is 105);                                                      *)
(*   - interest rates are in units of 1/RateScale (0.03/100 is 30);        *)
(*   - the trading fee is in units of 1/FeeScale (0.001 is 1);             *)
(*   - investment_size is a multiple of every scale and of every close of  *)
(*     Closes, so that every product and quotient the code forms           *)
(*     (size*leverage*rate, size*leverage*(pct-1), size/close,             *)
(*     size*leverage*close/entry) is an integer and is computed exactly.   *)
(* Comparisons against a trigger price entry*pct are cross-multiplied by   *)
(* the scale.  last_close = None is NoPrice (0); closes are > 0.           *)
(***************************************************************************)
EXTENDS Integers, Sequences, FiniteSets, TLC

VARIABLES
    kind,                   \* which Investor subclass was constructed
    portfolio_size,         \* Investor.portfolio_size (fiat balance / available fiat)
    investment_size,        \* investment_size of either investor
    accumulated_coins,      \* SpotInvestor.accumulated_coins
    trading_fee,            \* SpotInvestor.trading_fee
    last_close,             \* SpotInvestor.last_close
    investments,            \* MarginInvestor.investments (MarginInvestments rows)
    asset_interest_rate,    \* MarginInvestor.asset_interest_rate
    fiat_interest_rate,     \* MarginInvestor.fiat_interest_rate
    take_profit_percentage, \* MarginInvestor.take_profit_percentage
    stop_loss_percentage,   \* MarginInvestor.stop_loss_percentage
    last_close_price,       \* MarginInvestor.last_close_price
    can_trade,              \* MarginInvestor.can_trade
    pc,                     \* "idle", or "invest" while the loop of invest runs
    date,                   \* invest: the timestamp the loop processed last
    ledger,                 \* SpotInvestor.invest: its local `investments`
    ret,                    \* what the last call returned (or that it raised)
    call,                   \* the last invest / make_investment / set_env_parameters step and its inputs
    trace,                  \* what the last handler invocation did, in order
    hist,                   \* per invest call: timestamps seen, passes run, trades executed
    steps                   \* calls and loop iterations so far (bounded by MaxSteps)

vars == <<kind, portfolio_size, investment_size, accumulated_coins, trading_fee,
          last_close, investments, asset_interest_rate, fiat_interest_rate,
          take_profit_percentage, stop_loss_percentage, last_close_price,
          can_trade, pc, date, ledger, ret, call, trace, hist, steps>>

----------------------------------------------------------------------------
(* Bounds of the model *)

\* total number of calls of set_env_parameters and make_investment and of
\* loop iterations of invest; timestamps are 1..MaxSteps
MaxSteps == 3

(* Units *)
PctScale == 100
RateScale == 100000
FeeScale == 1000

NoPrice == 0

Dates == 1..MaxSteps
Closes == {2, 4}
Strengths == {1, 2}

\* ActionSimple, plus a value outside it
BUY == "BUY"
SELL == "SELL"
HOLD == "HOLD"
INVALID == "INVALID"
ActionSimple == {BUY, SELL, HOLD}

\* one row of Actions: ACTION and INDICATOR_STRENGTH
Decisions ==
    [action : {BUY, SELL}, strength : Strengths]
        \cup [action : {HOLD, INVALID}, strength : {0}]
\* the timestamp is not in actions.index
NoDecision == [action |-> "NONE", strength |-> 0]

\* one row of coin_data: the index (date) and the 'Close' column
PriceRow(d, close) ==
    [date |-> d, Close |-> close]

\* one row of Actions with its index (date)
ActionRow(d, dec) ==
    [date |-> d, action |-> dec.action, strength |-> dec.strength]

\* frame.iloc[-1]
Last(frame) ==
    frame[Len(frame)]

\* frame.loc[:date]
Loc(frame, d) ==
    SelectSeq(frame, LAMBDA row : row.date <= d)

\* date in frame.index
InIndex(frame, d) ==
    \E i \in 1..Len(frame) : frame[i].date = d

----------------------------------------------------------------------------
(* MarginInvestor *)

\* defaults set by the constructors
DefaultTradingFee == 1
DefaultAssetInterestRate == 2
DefaultFiatInterestRate == 30
DefaultTakeProfitPercentage == 105
DefaultStopLossPercentage == 97

Event(e, k, x) == [ev |-> e, row |-> k, amount |-> x]

\* the positions in a trace of the events e of row k; whether e occurs
EventsOf(tr, e, k) ==
    {i \in 1..Len(tr) : tr[i].ev = e /\ tr[i].row = k}

HasEvent(tr, e) ==
    \E i \in 1..Len(tr) : tr[i].ev = e

\* the investor `self` as the methods below read and write it
MarginSelf ==
    [portfolio_size |-> portfolio_size,
     investments |-> investments,
     last_close_price |-> last_close_price,
     can_trade |-> can_trade,
     returned |-> <<>>,
     trace |-> <<>>]

\* index of the row labelled d in a ledger, 0 when there is none
RowOf(rows, d) ==
    IF \E k \in 1..Len(rows) : rows[k].date = d
    THEN CHOOSE k \in 1..Len(rows) : rows[k].date = d
    ELSE 0

\* one row of MarginInvestments: the index (date) and COLUMNS
NewRow(d, investment_type, usd_invested, asset_price, leverage, is_active) ==
    [date |-> d,
     investment_type |-> investment_type,
     fiat_amount_invested |-> usd_invested,
     asset_price |-> asset_price,
     leverage |-> leverage,
     is_active |-> is_active]

\* MarginInvestments.add_investment: self.loc[date] = [...] sets the row
\* labelled date, appending it when the label is new
add_investment(rows, d, investment_type, usd_invested, asset_price, leverage, is_active) ==
    LET row == NewRow(d, investment_type, usd_invested, asset_price, leverage, is_active)
    IN  IF RowOf(rows, d) = 0
        THEN Append(rows, row)
        ELSE [rows EXCEPT ![RowOf(rows, d)] = row]

\* fiat_amount_invested * leverage
Notional(investment) ==
    investment.fiat_amount_invested * investment.leverage

\* fiat_amount_invested * leverage * rate, rate in units of 1/RateScale
Interest(investment, rate) ==
    (investment.fiat_amount_invested \div RateScale) * investment.leverage * rate

\* mutant: fiat_amount_invested * leverage * percentage
PayoutGross(investment, percentage) ==
    (investment.fiat_amount_invested \div PctScale) * investment.leverage
        * percentage

\* fiat_amount_invested * leverage * (percentage - 1)
Payout(investment, percentage) ==
    (investment.fiat_amount_invested \div PctScale) * investment.leverage
        * (percentage - PctScale)

\* mutant: the take-profit comparisons are strict
TakeProfitHitStrict(investment, close) ==
    IF investment.investment_type = "LONG"
    THEN close * PctScale > investment.asset_price * take_profit_percentage
    ELSE close * PctScale < investment.asset_price * (2 * PctScale - take_profit_percentage)

\* last_close_price >= asset_price * take_profit_percentage      (LONG)
\* last_close_price <= asset_price * (2 - take_profit_percentage) (SHORT)
TakeProfitHit(investment, close) ==
    IF investment.investment_type = "LONG"
    THEN close * PctScale >= investment.asset_price * take_profit_percentage
    ELSE close * PctScale <= investment.asset_price * (2 * PctScale - take_profit_percentage)

\* last_close_price <= asset_price * stop_loss_percentage        (LONG)
\* last_close_price >= asset_price * (2 - stop_loss_percentage)  (SHORT)
StopLossHit(investment, close) ==
    IF investment.investment_type = "LONG"
    THEN close * PctScale <= investment.asset_price * stop_loss_percentage
    ELSE close * PctScale >= investment.asset_price * (2 * PctScale - stop_loss_percentage)

\* mutant: every position is charged the fiat interest rate
ChargeFiatInterest(s, k) ==
    LET investment == s.investments[k]
        interest == Interest(investment, fiat_interest_rate)
    IN  [s EXCEPT !.portfolio_size = @ - interest,
                  !.trace = Append(@, Event("interest", k, interest))]

\* the interest of one loop iteration of _update_portfolio_value
ChargeInterest(s, k) ==
    LET investment == s.investments[k]
        interest == IF investment.investment_type = "LONG"
                    THEN Interest(investment, fiat_interest_rate)
                    ELSE Interest(investment, asset_interest_rate)
    IN  [s EXCEPT !.portfolio_size = @ - interest,
                  !.trace = Append(@, Event("interest", k, interest))]

\* mutant: the stop-loss is checked first
CheckStopLossFirst(s, k) ==
    LET investment == s.investments[k]
    IN  IF StopLossHit(investment, s.last_close_price)
        THEN [s EXCEPT
                !.portfolio_size = @ + Payout(investment, stop_loss_percentage)
                                     + Notional(investment),
                !.investments[k].is_active = FALSE,
                !.trace = Append(@, Event("stop_loss", k,
                            Payout(investment, stop_loss_percentage)
                                + Notional(investment)))]
        ELSE IF TakeProfitHit(investment, s.last_close_price)
        THEN [s EXCEPT
                !.portfolio_size = @ + Payout(investment, take_profit_percentage)
                                     + Notional(investment),
                !.investments[k].is_active = FALSE,
                !.trace = Append(@, Event("take_profit", k,
                            Payout(investment, take_profit_percentage)
                                + Notional(investment)))]
        ELSE s

\* mutant: triggers and payouts use the percentages set by the constructor
CheckTakeProfitStopLossAsConstructed(s, k) ==
    LET investment == s.investments[k]
        close == s.last_close_price * PctScale
        long == investment.investment_type = "LONG"
        tp == IF long
              THEN close >= investment.asset_price * DefaultTakeProfitPercentage
              ELSE close <= investment.asset_price * (2 * PctScale - DefaultTakeProfitPercentage)
        sl == IF long
              THEN close <= investment.asset_price * DefaultStopLossPercentage
              ELSE close >= investment.asset_price * (2 * PctScale - DefaultStopLossPercentage)
    IN  IF tp
        THEN [s EXCEPT
                !.portfolio_size = @ + Payout(investment, DefaultTakeProfitPercentage)
                                     + Notional(investment),
                !.investments[k].is_active = FALSE,
                !.trace = Append(@, Event("take_profit", k,
                            Payout(investment, DefaultTakeProfitPercentage)
                                + Notional(investment)))]
        ELSE IF sl
        THEN [s EXCEPT
                !.portfolio_size = @ + Payout(investment, DefaultStopLossPercentage)
                                     + Notional(investment),
                !.investments[k].is_active = FALSE,
                !.trace = Append(@, Event("stop_loss", k,
                            Payout(investment, DefaultStopLossPercentage)
                                + Notional(investment)))]
        ELSE s

\* the TP / SL check of one loop iteration: if TP ... elif SL ...
CheckTakeProfitStopLoss(s, k) ==
    LET investment == s.investments[k]
    IN  IF TakeProfitHit(investment, s.last_close_price)
        THEN [s EXCEPT
                !.portfolio_size = @ + Payout(investment, take_profit_percentage)
                                     + Notional(investment),
                !.investments[k].is_active = FALSE,
                !.trace = Append(@, Event("take_profit", k,
                            Payout(investment, take_profit_percentage)
                                + Notional(investment)))]
        ELSE IF StopLossHit(investment, s.last_close_price)
        THEN [s EXCEPT
                !.portfolio_size = @ + Payout(investment, stop_loss_percentage)
                                     + Notional(investment),
                !.investments[k].is_active = FALSE,
                !.trace = Append(@, Event("stop_loss", k,
                            Payout(investment, stop_loss_percentage)
                                + Notional(investment)))]
        ELSE s

\* one iteration of the loop over self.investments.iterrows()
UpdateRow(s, k) ==
    IF ~s.investments[k].is_active
    THEN s
    ELSE CheckTakeProfitStopLoss(ChargeInterest(s, k), k)

RECURSIVE UpdateRows(_, _)
UpdateRows(s, k) ==
    IF k > Len(s.investments)
    THEN s
    ELSE UpdateRows(UpdateRow(s, k), k + 1)

\* mutant: can_trade follows the sign of the balance
CheckBorrowedRecovers(s) ==
    [s EXCEPT !.can_trade = ~(s.portfolio_size <= 0)]

\* if self.portfolio_size <= 0: self.can_trade = False
CheckBorrowed(s) ==
    IF s.portfolio_size <= 0
    THEN [s EXCEPT !.can_trade = FALSE]
    ELSE s

\* the loop with the balance tested after every interest charge
RECURSIVE UpdateRowsTestingEachCharge(_, _)
UpdateRowsTestingEachCharge(s, k) ==
    IF k > Len(s.investments)
    THEN s
    ELSE UpdateRowsTestingEachCharge(
            IF s.investments[k].is_active
            THEN CheckTakeProfitStopLoss(CheckBorrowed(ChargeInterest(s, k)), k)
            ELSE s,
            k + 1)

\* mutant: can_trade is tested inside the loop, after every interest charge
update_portfolio_value_testing_each_charge(s) ==
    LET begun == [s EXCEPT !.trace = Append(@, Event("update", 0, 0))]
    IN  CheckBorrowed(UpdateRowsTestingEachCharge(begun, 1))

\* MarginInvestor._update_portfolio_value
update_portfolio_value(s) ==
    LET begun == [s EXCEPT !.trace = Append(@, Event("update", 0, 0))]
    IN  CheckBorrowed(UpdateRows(begun, 1))

\* mutant: a leverage that is not positive is turned down
CanAffordPositiveLeverage(s, leverage) ==
    leverage > 0 /\ ~(s.portfolio_size < investment_size * leverage)

\* mutant: the balance must exceed the amount
CanAffordStrict(s, leverage) ==
    ~(s.portfolio_size <= investment_size * leverage)

\* the affordability check of _make_long_investment / _make_short_investment
CanAfford(s, leverage) ==
    ~(s.portfolio_size < investment_size * leverage)

\* MarginInvestor._make_long_investment
make_long_investment(s, coin_data, actions) ==
    LET leverage == Last(actions).strength
        d == Last(coin_data).date
    IN  IF ~CanAfford(s, leverage)
        THEN [s EXCEPT !.trace = Append(@, Event("rejected", 0, 0))]
        ELSE [s EXCEPT
                !.portfolio_size = @ - investment_size * leverage,
                !.investments = add_investment(@, d, "LONG", investment_size,
                                               s.last_close_price, leverage, TRUE),
                !.returned = <<NewRow(d, "LONG", investment_size,
                                      s.last_close_price, leverage, TRUE)>>,
                !.trace = Append(@, Event("opened", 0, investment_size * leverage))]

\* mutant: the amount recorded is the leveraged amount
make_short_investment_leveraged(s, coin_data, actions) ==
    LET leverage == Last(actions).strength
        d == Last(coin_data).date
    IN  IF ~CanAfford(s, leverage)
        THEN [s EXCEPT !.trace = Append(@, Event("rejected", 0, 0))]
        ELSE [s EXCEPT
                !.portfolio_size = @ - investment_size * leverage,
                !.investments = add_investment(@, d, "SHORT",
                                               investment_size * leverage,
                                               s.last_close_price, leverage, TRUE),
                !.returned = <<NewRow(d, "SHORT", investment_size * leverage,
                                      s.last_close_price, leverage, TRUE)>>,
                !.trace = Append(@, Event("opened", 0, investment_size * leverage))]

\* MarginInvestor._make_short_investment
make_short_investment(s, coin_data, actions) ==
    LET leverage == Last(actions).strength
        d == Last(coin_data).date
    IN  IF ~CanAfford(s, leverage)
        THEN [s EXCEPT !.trace = Append(@, Event("rejected", 0, 0))]
        ELSE [s EXCEPT
                !.portfolio_size = @ - investment_size * leverage,
                !.investments = add_investment(@, d, "SHORT", investment_size,
                                               s.last_close_price, leverage, TRUE),
                !.returned = <<NewRow(d, "SHORT", investment_size,
                                      s.last_close_price, leverage, TRUE)>>,
                !.trace = Append(@, Event("opened", 0, investment_size * leverage))]

\* mutant: every decision of the slice is acted on, oldest first
RECURSIVE margin_make_investment_each(_, _, _)
margin_make_investment_each(s, coin_data, actions) ==
    IF actions = <<>>
    THEN s
    ELSE LET first == <<Head(actions)>>
             t == IF Head(actions).action = BUY
                  THEN make_long_investment(s, coin_data, first)
                  ELSE IF Head(actions).action = SELL
                  THEN make_short_investment(s, coin_data, first)
                  ELSE s
         IN  margin_make_investment_each(t, coin_data, Tail(actions))

\* MarginInvestor._make_investment: the last action decides; BUY opens a
\* LONG, SELL a SHORT, anything else falls through and returns the empty
\* MarginInvestments
margin_make_investment_(s, coin_data, actions) ==
    LET action == Last(actions)
    IN  IF action.action = BUY
        THEN make_long_investment(s, coin_data, actions)
        ELSE IF action.action = SELL
        THEN make_short_investment(s, coin_data, actions)
        ELSE s

\* mutant: the decision is acted on before the update pass runs
margin_make_investment_opens_first(s, coin_data, actions) ==
    update_portfolio_value(
        margin_make_investment_(
            [s EXCEPT !.last_close_price = Last(coin_data).Close],
            coin_data, actions))

\* MarginInvestor.make_investment: set the last close, run the update pass,
\* then act on the last decision
margin_make_investment(s, coin_data, actions) ==
    margin_make_investment_(
        update_portfolio_value(
            [s EXCEPT !.last_close_price = Last(coin_data).Close]),
        coin_data, actions)

\* mutant: the update pass runs only at timestamps that have a decision
margin_invest_step_decision_driven(s, i, coin_data, actions) ==
    LET d == coin_data[i].date
    IN  IF ~InIndex(actions, d)
        THEN [s EXCEPT !.last_close_price = coin_data[i].Close]
        ELSE margin_make_investment(s, Loc(coin_data, d), Loc(actions, d))

\* the body of the loop of MarginInvestor.invest at index i of coin_data
margin_invest_step(s, i, coin_data, actions) ==
    LET d == coin_data[i].date
    IN  IF ~InIndex(actions, d)
        THEN update_portfolio_value(
                [s EXCEPT !.last_close_price = coin_data[i].Close])
        ELSE margin_make_investment(s, Loc(coin_data, d), Loc(actions, d))

\* mutant: the profit or loss is that of the unleveraged amount
ActiveValueUnleveraged(investment, close) ==
    LET scaled == (investment.fiat_amount_invested \div investment.asset_price) * close
    IN  IF investment.investment_type = "LONG"
        THEN Notional(investment) + (scaled - investment.fiat_amount_invested)
        ELSE Notional(investment) + (investment.fiat_amount_invested - scaled)

\* what one active investment adds to the value: the borrowed amount plus
\* fiat * leverage * (pct_change - 1) (LONG) or * (1 - pct_change) (SHORT),
\* pct_change = last_close_price / asset_price
ActiveValue(investment, close) ==
    LET scaled == (Notional(investment) \div investment.asset_price) * close
    IN  IF investment.investment_type = "LONG"
        THEN Notional(investment) + (scaled - Notional(investment))
        ELSE Notional(investment) + (Notional(investment) - scaled)

RECURSIVE SumActive(_, _, _)
SumActive(rows, k, close) ==
    IF k > Len(rows)
    THEN 0
    ELSE (IF rows[k].is_active THEN ActiveValue(rows[k], close) ELSE 0)
            + SumActive(rows, k + 1, close)

\* MarginInvestor.get_portfolio_value_final
margin_get_portfolio_value_final(s) ==
    IF ~s.can_trade
    THEN 0
    ELSE s.portfolio_size + SumActive(s.investments, 1, s.last_close_price)

\* MarginInvestor.get_portfolio_value
margin_get_portfolio_value(s) ==
    margin_get_portfolio_value_final(s)


----------------------------------------------------------------------------
(* SpotInvestor *)

SpotSelf ==
    [portfolio_size |-> portfolio_size,
     accumulated_coins |-> accumulated_coins,
     last_close |-> last_close,
     returned |-> <<>>,
     raised |-> FALSE,
     trace |-> <<>>]

\* one row of Investments: the index (date), FIAT_AMOUNT_INVESTED, COIN_AMOUNT
SpotRow(d, fiat, coins) ==
    [date |-> d, fiat_amount_invested |-> fiat, coin_amount |-> coins]

\* investment_size * trading_fee, the fee in units of 1/FeeScale
TradingFee ==
    (investment_size \div FeeScale) * trading_fee

\* mutant: a BUY that cannot be paid raises
make_buy_investment_raises(s, coin_data) ==
    IF s.portfolio_size < investment_size
    THEN [s EXCEPT !.raised = TRUE]
    ELSE LET coin_amount == (investment_size - TradingFee) \div s.last_close
         IN  [s EXCEPT
                !.portfolio_size = @ - investment_size,
                !.accumulated_coins = @ + coin_amount,
                !.returned = <<SpotRow(Last(coin_data).date, -investment_size, coin_amount)>>,
                !.trace = Append(@, Event("bought", 0, coin_amount))]

\* mutant: a BUY converts the whole investment_size into coins
make_buy_investment_without_fee(s, coin_data) ==
    IF s.portfolio_size < investment_size
    THEN [s EXCEPT !.trace = Append(@, Event("rejected", 0, 0))]
    ELSE LET coin_amount == investment_size \div s.last_close
         IN  [s EXCEPT
                !.portfolio_size = @ - investment_size,
                !.accumulated_coins = @ + coin_amount,
                !.returned = <<SpotRow(Last(coin_data).date, -investment_size, coin_amount)>>,
                !.trace = Append(@, Event("bought", 0, coin_amount))]

\* SpotInvestor._make_buy_investment
make_buy_investment(s, coin_data) ==
    IF s.portfolio_size < investment_size
    THEN [s EXCEPT !.trace = Append(@, Event("rejected", 0, 0))]
    ELSE LET coin_amount == (investment_size - TradingFee) \div s.last_close
         IN  [s EXCEPT
                !.portfolio_size = @ - investment_size,
                !.accumulated_coins = @ + coin_amount,
                !.returned = <<SpotRow(Last(coin_data).date, -investment_size, coin_amount)>>,
                !.trace = Append(@, Event("bought", 0, coin_amount))]

\* mutant: a SELL is refused only when no coins are held
make_sell_investment_any_coins(s, coin_data) ==
    LET coin_amount == investment_size \div s.last_close
    IN  IF s.accumulated_coins <= 0
        THEN [s EXCEPT !.trace = Append(@, Event("rejected", 0, 0))]
        ELSE [s EXCEPT
                !.accumulated_coins = @ - coin_amount,
                !.portfolio_size = @ + (investment_size - TradingFee),
                !.returned = <<SpotRow(Last(coin_data).date, investment_size, -coin_amount)>>,
                !.trace = Append(@, Event("sold", 0, coin_amount))]

\* SpotInvestor._make_sell_investment
make_sell_investment(s, coin_data) ==
    LET coin_amount == investment_size \div s.last_close
    IN  IF coin_amount > s.accumulated_coins
        THEN [s EXCEPT !.trace = Append(@, Event("rejected", 0, 0))]
        ELSE [s EXCEPT
                !.accumulated_coins = @ - coin_amount,
                !.portfolio_size = @ + (investment_size - TradingFee),
                !.returned = <<SpotRow(Last(coin_data).date, investment_size, -coin_amount)>>,
                !.trace = Append(@, Event("sold", 0, coin_amount))]

\* mutant: an action that is neither BUY nor SELL is a HOLD
spot_make_investment_absorbs(s, coin_data, action) ==
    LET action_type == Last(action).action
    IN  IF action_type = BUY
        THEN make_buy_investment(s, coin_data)
        ELSE IF action_type = SELL
        THEN make_sell_investment(s, coin_data)
        ELSE s

\* mutant: a BUY / SELL of strength 2 trades twice the investment size
spot_make_investment_sized_by_strength(s, coin_data, action) ==
    LET action_type == Last(action).action
        once == IF action_type = BUY
                THEN make_buy_investment(s, coin_data)
                ELSE make_sell_investment(s, coin_data)
    IN  IF action_type = HOLD
        THEN s
        ELSE IF action_type \notin {BUY, SELL}
        THEN [s EXCEPT !.raised = TRUE]
        ELSE IF Last(action).strength < 2
        THEN once
        ELSE IF action_type = BUY
        THEN make_buy_investment(once, coin_data)
        ELSE make_sell_investment(once, coin_data)

\* SpotInvestor._make_investment: the last action decides; HOLD returns the
\* empty Investments, BUY and SELL trade, anything else raises ValueError
spot_make_investment_(s, coin_data, action) ==
    LET action_type == Last(action).action
    IN  IF action_type = HOLD
        THEN s
        ELSE IF action_type = BUY
        THEN make_buy_investment(s, coin_data)
        ELSE IF action_type = SELL
        THEN make_sell_investment(s, coin_data)
        ELSE [s EXCEPT !.raised = TRUE]

\* mutant: the trade is priced at the first close of the price history
spot_make_investment_first_close(s, coin_data, action) ==
    spot_make_investment_(
        [s EXCEPT !.last_close = coin_data[1].Close], coin_data, action)

\* SpotInvestor.make_investment
spot_make_investment(s, coin_data, action) ==
    spot_make_investment_(
        [s EXCEPT !.last_close = Last(coin_data).Close], coin_data, action)

\* the body of the loop of SpotInvestor.invest at index i of coin_data: a
\* timestamp without decision is skipped, otherwise make_investment gets
\* coin_data.iloc[:i + 1] and the one row actions.loc[date]
spot_invest_step(s, i, coin_data, actions) ==
    LET d == coin_data[i].date
    IN  IF ~InIndex(actions, d)
        THEN s
        ELSE spot_make_investment(
                s, SubSeq(coin_data, 1, i),
                <<actions[CHOOSE k \in 1..Len(actions) : actions[k].date = d]>>)

\* SpotInvestor.get_portfolio_value
spot_get_portfolio_value(s) ==
    s.portfolio_size + s.accumulated_coins * s.last_close

\* mutant: the fee is charged on the fiat balance as well
spot_get_portfolio_value_final_fee_on_all(s) ==
    LET coin_value == s.accumulated_coins * s.last_close
    IN  (s.portfolio_size + coin_value) * (FeeScale - trading_fee)

\* SpotInvestor.get_portfolio_value_final, in units of 1/FeeScale:
\* coin_value = accumulated_coins * last_close,
\* portfolio_size + coin_value - coin_value * trading_fee
spot_get_portfolio_value_final(s) ==
    LET coin_value == s.accumulated_coins * s.last_close
    IN  (s.portfolio_size + coin_value) * FeeScale - coin_value * trading_fee

\* mutant: else: investments = investment
SpotConcatOverwrites(rows, investment) ==
    IF rows # <<>> /\ investment # <<>>
    THEN rows \o investment
    ELSE investment

\* the ledger of SpotInvestor.invest after one iteration returned `investment`
SpotConcat(rows, investment) ==
    IF rows # <<>> /\ investment # <<>>
    THEN rows \o investment
    ELSE IF rows = <<>>
    THEN investment
    ELSE rows


----------------------------------------------------------------------------
(* Construction *)

\* constructor arguments (portfolio_size, investment_size)
SpotPortfolioSize == 24000
SpotInvestmentSize == 12000
MarginPortfolioSize == 2400360
MarginInvestmentSize == 1200000

NoCall ==
    [op |-> "none", date |-> 0, close |-> NoPrice, dec |-> NoDecision,
     decided |-> 0, reconfigured |-> FALSE]
NoReturn == [op |-> "none", rows |-> <<>>, value |-> 0, raised |-> FALSE]
NoCharges == [x \in Dates |-> 0]
NoHistory ==
    [fresh |-> TRUE, start |-> 0, passes |-> <<>>, executed |-> {},
     charged |-> NoCharges, closed |-> NoCharges]

Init ==
    /\ kind \in {"spot", "margin"}
    /\ portfolio_size = IF kind = "spot" THEN SpotPortfolioSize ELSE MarginPortfolioSize
    /\ investment_size = IF kind = "spot" THEN SpotInvestmentSize ELSE MarginInvestmentSize
    /\ accumulated_coins = 0
    /\ trading_fee = DefaultTradingFee
    /\ last_close = NoPrice
    /\ investments = <<>>
    /\ asset_interest_rate = DefaultAssetInterestRate
    /\ fiat_interest_rate = DefaultFiatInterestRate
    /\ take_profit_percentage = DefaultTakeProfitPercentage
    /\ stop_loss_percentage = DefaultStopLossPercentage
    /\ last_close_price = NoPrice
    /\ can_trade = TRUE
    /\ pc = "idle"
    /\ date = 0
    /\ ledger = <<>>
    /\ ret = NoReturn
    /\ call = NoCall
    /\ trace = <<>>
    /\ hist = NoHistory
    /\ steps = 0

----------------------------------------------------------------------------
(* set_env_parameters *)

\* mutant: environment_parameters.get(key), None for an absent key
GetWithoutDefault(env, key, default) ==
    IF key \in DOMAIN env THEN env[key] ELSE 0

\* environment_parameters.get(key, default)
Get(env, key, default) ==
    IF key \in DOMAIN env THEN env[key] ELSE default

\* dictionaries a caller passes: some options present, some absent, and an
\* unrecognised key; the percentages put every trigger price on a close of
\* Closes (LONG: entry*2 and entry/2; SHORT: entry/2 and entry*2), and the
\* last dictionary makes both conditions of a position hold at once; the
\* asset interest rate of the second one charges a SHORT of leverage 2 what
\* its opening left of the initial balance
MarginEnvParameters ==
    { [take_profit_percentage |-> 200, stop_loss_percentage |-> 50,
       fiat_interest_rate |-> 500],
      [take_profit_percentage |-> 150, stop_loss_percentage |-> 0,
       asset_interest_rate |-> 15, leverage_limit |-> 3],
      [take_profit_percentage |-> 50, stop_loss_percentage |-> 150] }

SpotEnvParameters ==
    { [trading_fee |-> 0, leverage_limit |-> 3],
      [leverage_limit |-> 3] }

\* MarginInvestor.set_env_parameters
MarginSetEnvParameters(env) ==
    /\ kind = "margin"
    /\ pc = "idle"
    /\ steps < MaxSteps
    /\ steps' = steps + 1
    /\ asset_interest_rate' = Get(env, "asset_interest_rate", asset_interest_rate)
    /\ fiat_interest_rate' = Get(env, "fiat_interest_rate", fiat_interest_rate)
    /\ take_profit_percentage' = Get(env, "take_profit_percentage", take_profit_percentage)
    /\ stop_loss_percentage' = Get(env, "stop_loss_percentage", stop_loss_percentage)
    /\ call' = [NoCall EXCEPT !.op = "set_env_parameters"]
    /\ trace' = <<>>
    /\ ret' = NoReturn
    /\ UNCHANGED <<kind, portfolio_size, investment_size, accumulated_coins,
                   trading_fee, last_close, investments, last_close_price,
                   can_trade, pc, date,
                   ledger, hist>>

\* SpotInvestor.set_env_parameters
SpotSetEnvParameters(env) ==
    /\ kind = "spot"
    /\ pc = "idle"
    /\ steps < MaxSteps
    /\ steps' = steps + 1
    /\ trading_fee' = IF "trading_fee" \in DOMAIN env
                      THEN env["trading_fee"]
                      ELSE trading_fee
    /\ call' = [NoCall EXCEPT !.op = "set_env_parameters"]
    /\ trace' = <<>>
    /\ ret' = NoReturn
    /\ UNCHANGED <<kind, portfolio_size, investment_size, accumulated_coins,
                   last_close, investments, asset_interest_rate,
                   fiat_interest_rate, take_profit_percentage,
                   stop_loss_percentage, last_close_price, can_trade, pc, date,
                   ledger, hist>>

----------------------------------------------------------------------------
(* invest and make_investment *)

\* the fields of the investor after a method returned `s`
CommitMargin(s) ==
    /\ portfolio_size' = s.portfolio_size
    /\ investments' = s.investments
    /\ last_close_price' = s.last_close_price
    /\ can_trade' = s.can_trade
    /\ trace' = s.trace
    /\ UNCHANGED <<kind, investment_size, accumulated_coins, trading_fee,
                   last_close, asset_interest_rate, fiat_interest_rate,
                   take_profit_percentage, stop_loss_percentage>>

CommitSpot(s) ==
    /\ portfolio_size' = s.portfolio_size
    /\ accumulated_coins' = s.accumulated_coins
    /\ last_close' = s.last_close
    /\ trace' = s.trace
    /\ UNCHANGED <<kind, investment_size, trading_fee, investments,
                   asset_interest_rate, fiat_interest_rate,
                   take_profit_percentage, stop_loss_percentage,
                   last_close_price, can_trade>>

\* the dates of the "update" events of a trace, in order
RECURSIVE PassesOf(_, _)
PassesOf(tr, d) ==
    IF tr = <<>>
    THEN <<>>
    ELSE (IF Head(tr).ev = "update" THEN <<d>> ELSE <<>>) \o PassesOf(Tail(tr), d)

\* a BUY / SELL that the balance at the time of the attempt can pay for:
\* MarginInvestor attempts it after the update pass at the new close
MarginAffordable(close, dec) ==
    /\ dec.action \in {BUY, SELL}
    /\ update_portfolio_value([MarginSelf EXCEPT !.last_close_price = close]).portfolio_size
            >= investment_size * dec.strength

\* SpotInvestor: fiat for a BUY, coins for a SELL
SpotAffordable(close, dec) ==
    \/ dec.action = BUY /\ portfolio_size >= investment_size
    \/ dec.action = SELL /\ accumulated_coins * close >= investment_size

\* the coin_data a handler is given for timestamp d: the row of the
\* timestamp processed by the call before (when there is one) and the row
\* of d
History(d, close) ==
    (IF call.close # NoPrice THEN <<PriceRow(call.date, call.close)>> ELSE <<>>)
        \o <<PriceRow(d, close)>>

\* the actions a handler is given for timestamp d: the row the call before
\* acted on (when there is one) and the row of d (when d has a decision)
Slice(d, dec) ==
    (IF call.dec # NoDecision THEN <<ActionRow(call.decided, call.dec)>> ELSE <<>>)
        \o (IF dec # NoDecision THEN <<ActionRow(d, dec)>> ELSE <<>>)

\* the ACTION and INDICATOR_STRENGTH of a row of Actions
DecisionOf(row) ==
    [action |-> row.action, strength |-> row.strength]

\* invest(coin_data, actions) is called; coin_data.index starts at `start`
InvestBegin(start) ==
    /\ pc = "idle"
    /\ steps < MaxSteps
    /\ pc' = "invest"
    /\ date' = start - 1
    /\ ledger' = <<>>
    /\ hist' = [NoHistory EXCEPT
                  !.fresh = IF kind = "margin"
                            THEN investments = <<>>
                            ELSE /\ accumulated_coins = 0
                                 /\ portfolio_size = SpotPortfolioSize,
                  !.start = start]
    /\ call' = [NoCall EXCEPT !.op = "invest", !.date = start]
    /\ trace' = <<>>
    /\ ret' = NoReturn
    /\ UNCHANGED <<kind, portfolio_size, investment_size, accumulated_coins,
                   trading_fee, last_close, investments, asset_interest_rate,
                   fiat_interest_rate, take_profit_percentage,
                   stop_loss_percentage, last_close_price, can_trade, steps>>

\* the position of the "opened" event in a trace, 0 when nothing was opened
OpenedAt(tr) ==
    IF HasEvent(tr, "opened")
    THEN CHOOSE i \in 1..Len(tr) : tr[i].ev = "opened"
    ELSE 0

\* how often row k was charged interest, and whether it was closed, by the
\* events of a trace after position `from`
Charges(tr, k, from) ==
    Cardinality({i \in EventsOf(tr, "interest", k) : i > from})
Closed(tr, k, from) ==
    \E i \in EventsOf(tr, "take_profit", k) \cup EventsOf(tr, "stop_loss", k) : i > from

\* per position opened by the running invest call (labelled by its
\* timestamp): the interest charges it has paid and the timestamp of its
\* closure, after the loop body at timestamp d returned s
TrackCharges(h, s, d) ==
    LET tracked(x) == IF x = d THEN HasEvent(s.trace, "opened") ELSE x \in h.executed
        from(x) == IF x = d THEN OpenedAt(s.trace) ELSE 0
    IN  [h EXCEPT
            !.charged = [x \in Dates |->
                IF tracked(x)
                THEN (IF x = d THEN 0 ELSE h.charged[x])
                        + Charges(s.trace, RowOf(s.investments, x), from(x))
                ELSE 0],
            !.closed = [x \in Dates |->
                IF tracked(x) /\ Closed(s.trace, RowOf(s.investments, x), from(x))
                THEN d
                ELSE IF x = d THEN 0 ELSE h.closed[x]]]

\* one iteration of the loop of MarginInvestor.invest
MarginInvestStep(close, dec) ==
    /\ kind = "margin"
    /\ pc = "invest"
    /\ date < MaxSteps
    /\ steps < MaxSteps
    /\ LET d == date + 1
           coin_data == History(d, close)
           actions == Slice(d, dec)
           s == margin_invest_step(MarginSelf, Len(coin_data), coin_data, actions)
       IN  /\ CommitMargin(s)
           /\ date' = d
           /\ call' = [op |-> "invest_step", date |-> d, close |-> close,
                       dec |-> dec,
                       decided |-> IF dec = NoDecision THEN 0 ELSE d,
                       reconfigured |-> FALSE]
           /\ hist' = [TrackCharges(hist, s, d) EXCEPT
                         !.passes = @ \o PassesOf(s.trace, d),
                         !.executed = IF MarginAffordable(close, dec)
                                      THEN @ \cup {d} ELSE @]
    /\ steps' = steps + 1
    /\ UNCHANGED <<pc, ledger, ret>>

\* one iteration of the loop of SpotInvestor.invest; a ValueError of
\* make_investment ends invest
SpotInvestStep(close, dec) ==
    /\ kind = "spot"
    /\ pc = "invest"
    /\ date < MaxSteps
    /\ steps < MaxSteps
    /\ LET d == date + 1
           coin_data == History(d, close)
           actions == Slice(d, dec)
           s == spot_invest_step(SpotSelf, Len(coin_data), coin_data, actions)
       IN  /\ CommitSpot(s)
           /\ date' = d
           /\ call' = [op |-> "invest_step", date |-> d, close |-> close,
                       dec |-> dec,
                       decided |-> IF dec = NoDecision THEN 0 ELSE d,
                       reconfigured |-> FALSE]
           /\ IF s.raised
              THEN /\ pc' = "idle"
                   /\ ret' = [NoReturn EXCEPT !.op = "invest", !.raised = TRUE]
                   /\ ledger' = <<>>
                   /\ hist' = NoHistory
              ELSE /\ pc' = pc
                   /\ ret' = ret
                   /\ ledger' = SpotConcat(ledger, s.returned)
                   /\ hist' = [hist EXCEPT
                                 !.executed = IF dec # NoDecision /\ SpotAffordable(close, dec)
                                              THEN @ \cup {d} ELSE @]
    /\ steps' = steps + 1

\* the loop of invest is over: return the ledger
InvestReturn ==
    /\ pc = "invest"
    /\ pc' = "idle"
    /\ ret' = [NoReturn EXCEPT
                 !.op = "invest",
                 !.rows = IF kind = "spot" THEN ledger ELSE investments]
    /\ call' = [NoCall EXCEPT !.op = "invest_return"]
    /\ trace' = <<>>
    /\ ledger' = <<>>
    /\ hist' = NoHistory
    /\ UNCHANGED <<kind, portfolio_size, investment_size, accumulated_coins,
                   trading_fee, last_close, investments, asset_interest_rate,
                   fiat_interest_rate, take_profit_percentage,
                   stop_loss_percentage, last_close_price, can_trade, date,
                   steps>>

\* MarginInvestor.make_investment called by a client with the price history
\* up to timestamp d and the decisions up to d (at least one); dec is the
\* decision of d, if any
MarginMakeInvestment(d, close, dec) ==
    /\ kind = "margin"
    /\ pc = "idle"
    /\ steps < MaxSteps
    /\ Slice(d, dec) # <<>>
    /\ LET coin_data == History(d, close)
           actions == Slice(d, dec)
           s == margin_make_investment(MarginSelf, coin_data, actions)
       IN  /\ CommitMargin(s)
           /\ ret' = [op |-> "make_investment", rows |-> s.returned,
                      value |-> margin_get_portfolio_value(s), raised |-> FALSE]
           /\ call' = [op |-> "make_investment", date |-> d, close |-> close,
                       dec |-> DecisionOf(Last(actions)),
                       decided |-> Last(actions).date,
                       reconfigured |-> call.op = "set_env_parameters"]
    /\ steps' = steps + 1
    /\ date' = d
    /\ UNCHANGED <<pc, ledger, hist>>

\* SpotInvestor.make_investment called by a client, as for MarginInvestor
SpotMakeInvestment(d, close, dec) ==
    /\ kind = "spot"
    /\ pc = "idle"
    /\ steps < MaxSteps
    /\ Slice(d, dec) # <<>>
    /\ LET coin_data == History(d, close)
           actions == Slice(d, dec)
           s == spot_make_investment(SpotSelf, coin_data, actions)
       IN  /\ CommitSpot(s)
           /\ ret' = IF s.raised
                     THEN [NoReturn EXCEPT !.op = "make_investment", !.raised = TRUE]
                     ELSE [op |-> "make_investment", rows |-> s.returned,
                           value |-> spot_get_portfolio_value(s), raised |-> FALSE]
           /\ call' = [op |-> "make_investment", date |-> d, close |-> close,
                       dec |-> DecisionOf(Last(actions)),
                       decided |-> Last(actions).date,
                       reconfigured |-> FALSE]
    /\ steps' = steps + 1
    /\ date' = d
    /\ UNCHANGED <<pc, ledger, hist>>

\* mutant: the valuation runs the update pass first
MarginQueriedAfterPass(s) ==
    update_portfolio_value(s)

\* the investor after get_portfolio_value / get_portfolio_value_final
\* returned: neither method assigns to self
MarginQueried(s) ==
    s

\* MarginInvestor.get_portfolio_value (final = FALSE) or
\* get_portfolio_value_final (final = TRUE) called by a client
MarginGetPortfolioValue(final) ==
    /\ kind = "margin"
    /\ pc = "idle"
    /\ LET op == IF final THEN "get_portfolio_value_final" ELSE "get_portfolio_value"
           s == MarginQueried(MarginSelf)
       IN  /\ CommitMargin(s)
           /\ call' = call
           /\ ret' = [NoReturn EXCEPT
                        !.op = op,
                        !.value = IF final
                                  THEN margin_get_portfolio_value_final(MarginSelf)
                                  ELSE margin_get_portfolio_value(MarginSelf)]
    /\ UNCHANGED <<pc, date, ledger, hist, steps>>

\* mutant: the final valuation sells the coins
SpotQueriedLiquidates(s) ==
    [s EXCEPT !.portfolio_size = @ + s.accumulated_coins * s.last_close,
              !.accumulated_coins = 0]

\* the investor after get_portfolio_value / get_portfolio_value_final
\* returned: neither method assigns to self
SpotQueried(s) ==
    s

\* SpotInvestor.get_portfolio_value (in fiat units) or
\* get_portfolio_value_final (in units of 1/FeeScale) called by a client;
\* while last_close is None the product accumulated_coins * last_close
\* raises TypeError
SpotGetPortfolioValue(final) ==
    /\ kind = "spot"
    /\ pc = "idle"
    /\ LET op == IF final THEN "get_portfolio_value_final" ELSE "get_portfolio_value"
           s == SpotQueried(SpotSelf)
       IN  /\ CommitSpot(s)
           /\ call' = call
           /\ ret' = IF last_close = NoPrice
                     THEN [NoReturn EXCEPT !.op = op, !.raised = TRUE]
                     ELSE [NoReturn EXCEPT
                             !.op = op,
                             !.value = IF final
                                       THEN spot_get_portfolio_value_final(SpotSelf)
                                       ELSE spot_get_portfolio_value(SpotSelf)]
    /\ UNCHANGED <<pc, date, ledger, hist, steps>>

\* coin_data.index of an invest call begins at the first timestamp again, or
\* after the last timestamp processed
StartDates == {1, date + 1} \cap Dates
\* coin_data.index[-1] of a make_investment call is the timestamp after the
\* last one processed (a repeated timestamp arises when invest starts again
\* at the first timestamp)
CallDates == {date + 1} \cap Dates

Next ==
    \/ \E start \in StartDates : InvestBegin(start)
    \/ \E close \in Closes, dec \in Decisions \cup {NoDecision} :
            MarginInvestStep(close, dec)
    \/ \E close \in Closes, dec \in Decisions \cup {NoDecision} :
            SpotInvestStep(close, dec)
    \/ InvestReturn
    \/ \E d \in CallDates, close \in Closes, dec \in Decisions \cup {NoDecision} :
            MarginMakeInvestment(d, close, dec)
    \/ \E d \in CallDates, close \in Closes, dec \in Decisions \cup {NoDecision} :
            SpotMakeInvestment(d, close, dec)
    \/ \E final \in BOOLEAN : MarginGetPortfolioValue(final)
    \/ \E final \in BOOLEAN : SpotGetPortfolioValue(final)
    \/ \E env \in MarginEnvParameters : MarginSetEnvParameters(env)
    \/ \E env \in SpotEnvParameters : SpotSetEnvParameters(env)

Spec == Init /\ [][Next]_vars

----------------------------------------------------------------------------
(* MarginInvestor driven by decisions whose INDICATOR_STRENGTH is not
   positive *)

\* rows of Actions with a negative or a zero strength, and the BUY of
\* strength 1 that lets the balance run below zero
LeverageStrengths == {-1, 0}
LeverageDecisions ==
    [action : {BUY, SELL}, strength : LeverageStrengths]
        \cup {[action |-> BUY, strength |-> 1]}

InitLeverage ==
    Init /\ kind = "margin"

NextLeverage ==
    \/ \E start \in StartDates : InvestBegin(start)
    \/ \E close \in Closes, dec \in LeverageDecisions \cup {NoDecision} :
            MarginInvestStep(close, dec)
    \/ InvestReturn
    \/ \E d \in CallDates, close \in Closes, dec \in LeverageDecisions \cup {NoDecision} :
            MarginMakeInvestment(d, close, dec)

SpecLeverage == InitLeverage /\ [][NextLeverage]_vars


----------------------------------------------------------------------------
(* Properties *)

\* the events e of row k in a trace
\* the ascending enumeration of a set of dates
RECURSIVE Ascending(_)
Ascending(S) ==
    IF S = {}
    THEN <<>>
    ELSE LET m == CHOOSE x \in S : \A y \in S : x <= y
         IN  <<m>> \o Ascending(S \ {m})

RowDates(rows) ==
    [i \in 1..Len(rows) |-> rows[i].date]

\* C1: MarginInvestor: once can_trade is false it stays false, and in every
\* state with can_trade false get_portfolio_value() and
\* get_portfolio_value_final() are exactly 0, whatever the later closes,
\* closures and decisions.
C1_InsolvencyIsTerminal ==
    [][ kind = "margin" =>
          /\ (~can_trade => ~can_trade')
          /\ (~can_trade' =>
                /\ margin_get_portfolio_value(MarginSelf)' = 0
                /\ margin_get_portfolio_value_final(MarginSelf)' = 0) ]_vars

\* C1 witness: can_trade is false although a later take-profit / stop-loss
\* closure has made available fiat positive again
C1_Witness ==
    /\ kind = "margin"
    /\ ~can_trade
    /\ portfolio_size > 0
    /\ HasEvent(trace, "take_profit") \/ HasEvent(trace, "stop_loss")

\* C2, the case that holds: when invest returns on a SpotInvestor, or on a
\* MarginInvestor whose ledger was empty when invest was called, the returned
\* ledger has exactly one row for every timestamp whose decision was a
\* BUY / SELL that passed the affordability check, in timestamp order, and no
\* other row (none for HOLD, none for a rejected trade, none for a timestamp
\* without decision).
C2_FreshLedgerCase ==
    [][ (pc = "invest" /\ pc' = "idle" /\ ~ret'.raised
            /\ (kind = "spot" \/ hist.fresh))
          => RowDates(ret'.rows) = Ascending(hist.executed) ]_vars

\* C2 witness: inside invest, a trade has just been rejected after another
\* one was executed
C2_Witness ==
    /\ pc = "invest"
    /\ kind = "spot" \/ hist.fresh
    /\ hist.executed # {}
    /\ HasEvent(trace, "rejected")
    /\ RowDates(IF kind = "spot" THEN ledger ELSE investments)
            = Ascending(hist.executed)

\* C3: SpotInvestor: fiat_balance >= 0 and accumulated_coins >= 0 in every
\* reachable state.
C3_SpotBalancesNonNegative ==
    kind = "spot" => portfolio_size >= 0 /\ accumulated_coins >= 0

\* C3 witness: a SELL was rejected although coins are held (fewer than the
\* SELL needs)
C3_Witness ==
    /\ kind = "spot"
    /\ call.dec.action = SELL
    /\ HasEvent(trace, "rejected")
    /\ accumulated_coins > 0


\* C2: for both investors, when an invest call returns, the returned ledger
\* has exactly one row per decision executed during that call (a BUY / SELL
\* that passed the affordability check), indexed by the decision's timestamp,
\* and nothing else. MarginInvestor.invest returns self.investments, the
\* rows of the investor's whole lifetime, so rows of earlier calls appear.
C2_OneRowPerExecutedDecision ==
    [][ (pc = "invest" /\ pc' = "idle" /\ ~ret'.raised)
          => RowDates(ret'.rows) = Ascending(hist.executed) ]_vars

----------------------------------------------------------------------------
(* The update pass, as the specification states it *)

\* a step of the MarginInvestor that ran the update pass at close c
PassStep ==
    kind = "margin" /\ HasEvent(trace', "update")

Rows == 1..Len(investments)

\* trigger prices times PctScale
LongTakeProfitPrice(p) == p.asset_price * take_profit_percentage
LongStopLossPrice(p) == p.asset_price * stop_loss_percentage
ShortTakeProfitPrice(p) == p.asset_price * (2 * PctScale - take_profit_percentage)
ShortStopLossPrice(p) == p.asset_price * (2 * PctScale - stop_loss_percentage)

TakeProfitCondition(p, c) ==
    IF p.investment_type = "LONG"
    THEN c * PctScale >= LongTakeProfitPrice(p)
    ELSE c * PctScale <= ShortTakeProfitPrice(p)

StopLossCondition(p, c) ==
    IF p.investment_type = "LONG"
    THEN c * PctScale <= LongStopLossPrice(p)
    ELSE c * PctScale >= ShortStopLossPrice(p)

AtTrigger(p, c) ==
    IF p.investment_type = "LONG"
    THEN c * PctScale \in {LongTakeProfitPrice(p), LongStopLossPrice(p)}
    ELSE c * PctScale \in {ShortTakeProfitPrice(p), ShortStopLossPrice(p)}

StrictlyBetween(p, c) ==
    IF p.investment_type = "LONG"
    THEN LongStopLossPrice(p) < c * PctScale /\ c * PctScale < LongTakeProfitPrice(p)
    ELSE ShortTakeProfitPrice(p) < c * PctScale /\ c * PctScale < ShortStopLossPrice(p)

\* fiat_committed * leverage * rate
StatedInterest(p) ==
    (p.fiat_amount_invested * p.leverage
        * (IF p.investment_type = "LONG" THEN fiat_interest_rate
                                          ELSE asset_interest_rate)) \div RateScale

\* fiat_committed * leverage + fiat_committed * leverage * (pct - 1)
StatedCredit(p, pct) ==
    p.fiat_amount_invested * p.leverage
        + (p.fiat_amount_invested * p.leverage * (pct - PctScale)) \div PctScale

Closures(tr, k) ==
    EventsOf(tr, "take_profit", k) \cup EventsOf(tr, "stop_loss", k)

\* the sum of the amounts of the events of a trace whose kind is in evs
RECURSIVE SumEvents(_, _)
SumEvents(tr, evs) ==
    IF tr = <<>>
    THEN 0
    ELSE (IF Head(tr).ev \in evs THEN Head(tr).amount ELSE 0)
            + SumEvents(Tail(tr), evs)

\* the sum of f over the rows k..Len(rows) that are active
RECURSIVE SumStatedInterest(_, _)
SumStatedInterest(rows, k) ==
    IF k > Len(rows)
    THEN 0
    ELSE (IF rows[k].is_active THEN StatedInterest(rows[k]) ELSE 0)
            + SumStatedInterest(rows, k + 1)

\* the percentage of a closure event
PctOf(e) ==
    IF e.ev = "take_profit" THEN take_profit_percentage ELSE stop_loss_percentage

\* the investor between the update pass at close c and the trade attempt
AfterPass(c) ==
    update_portfolio_value([MarginSelf EXCEPT !.last_close_price = c])

\* C4: in an update pass, an active position whose close satisfies both its
\* take-profit and its stop-loss condition is closed as a take-profit,
\* credited the notional plus fiat_committed*leverage*(take_profit-1), with no
\* stop-loss payout; no position gets more than one closure per pass.
C4_TakeProfitBeforeStopLoss ==
    [][ PassStep =>
          \A k \in Rows :
            /\ Cardinality(Closures(trace', k)) <= 1
            /\ (/\ investments[k].is_active
                /\ TakeProfitCondition(investments[k], last_close_price')
                /\ StopLossCondition(investments[k], last_close_price'))
               => /\ \E i \in EventsOf(trace', "take_profit", k) :
                        trace'[i].amount
                            = StatedCredit(investments[k], take_profit_percentage)
                  /\ EventsOf(trace', "stop_loss", k) = {} ]_vars

\* C4 witness: a position was closed as a take-profit at a close that also
\* satisfies its stop-loss condition
C4_Witness ==
    /\ kind = "margin"
    /\ \E k \in Rows :
        /\ EventsOf(trace, "take_profit", k) # {}
        /\ ~investments[k].is_active
        /\ TakeProfitCondition(investments[k], last_close_price)
        /\ StopLossCondition(investments[k], last_close_price)
        /\ StatedCredit(investments[k], take_profit_percentage)
                # StatedCredit(investments[k], stop_loss_percentage)

\* the balance and holdings at the time of a trade attempt
AttemptFiat(c) ==
    IF kind = "margin" THEN AfterPass(c).portfolio_size ELSE portfolio_size

\* the investor's own ledger at the time of a trade attempt
AttemptRows(c) ==
    IF kind = "margin" THEN AfterPass(c).investments ELSE <<>>

\* a step that attempted the trade of decision call'.dec at close call'.close
TradeStep ==
    /\ steps' = steps + 1
    /\ call'.op \in {"invest_step", "make_investment"}
    /\ call'.dec.action \in {BUY, SELL}

\* the trade of this step cannot be afforded
Unaffordable ==
    IF kind = "margin"
    THEN AttemptFiat(call'.close) < investment_size * call'.dec.strength
    ELSE IF call'.dec.action = BUY
    THEN portfolio_size < investment_size
    ELSE accumulated_coins * call'.close < investment_size

\* the balance is exactly what the trade of this step needs
ExactlyAffordable ==
    IF kind = "margin"
    THEN AttemptFiat(call'.close) = investment_size * call'.dec.strength
    ELSE IF call'.dec.action = BUY
    THEN portfolio_size = investment_size
    ELSE accumulated_coins * call'.close = investment_size

\* C5: a BUY / SELL that cannot be afforded raises nothing, returns an empty
\* ledger delta and leaves the fiat balance, the coins and the ledger as they
\* were at the attempt; inside invest the loop goes on.
C5_RejectionIsAbsorbed ==
    [][ (TradeStep /\ Unaffordable) =>
          /\ ~ret'.raised
          /\ call'.op = "make_investment" => ret'.rows = <<>>
          /\ portfolio_size' = AttemptFiat(call'.close)
          /\ accumulated_coins' = accumulated_coins
          /\ kind = "margin" => investments' = AttemptRows(call'.close)
          /\ ledger' = ledger
          /\ pc' = pc ]_vars

\* C5 witness: inside invest, a trade was rejected and the loop is still
\* running
C5_Witness ==
    /\ pc = "invest"
    /\ call.op = "invest_step"
    /\ call.dec.action \in {BUY, SELL}
    /\ HasEvent(trace, "rejected")
    /\ ~ret.raised

\* C6: a trade whose requirement equals the balance exactly is executed:
\* SpotInvestor BUY with fiat_balance = investment_size, SpotInvestor SELL with
\* accumulated_coins = investment_size/close, MarginInvestor BUY / SELL with
\* available_fiat = investment_size*leverage.
C6_BoundaryIsInclusive ==
    [][ (TradeStep /\ ExactlyAffordable) =>
          /\ ~HasEvent(trace', "rejected")
          /\ kind = "margin" =>
                /\ HasEvent(trace', "opened")
                /\ portfolio_size' = 0
                /\ \E k \in 1..Len(investments') :
                        /\ investments'[k].date = call'.date
                        /\ investments'[k].is_active
                        /\ investments'[k].leverage = call'.dec.strength
          /\ (kind = "spot" /\ call'.dec.action = BUY) =>
                /\ portfolio_size' = 0
                /\ accumulated_coins' > accumulated_coins
          /\ (kind = "spot" /\ call'.dec.action = SELL) =>
                /\ accumulated_coins' = 0
                /\ portfolio_size' > portfolio_size ]_vars

\* C6 witness: a SpotInvestor SELL of exactly the coins held was executed
C6_Witness ==
    /\ kind = "spot"
    /\ call.dec.action = SELL
    /\ HasEvent(trace, "sold")
    /\ accumulated_coins = 0
    /\ portfolio_size > 0

\* C7: in an update pass, an active position whose close equals one of its
\* trigger prices (LONG: entry*tp, entry*sl; SHORT: entry*(2-tp),
\* entry*(2-sl)) is closed; one whose close lies strictly between its
\* stop-loss and take-profit prices stays active.
C7_TriggersAreInclusive ==
    [][ PassStep =>
          \A k \in Rows :
            investments[k].is_active =>
                /\ AtTrigger(investments[k], last_close_price')
                    => /\ Closures(trace', k) # {}
                       /\ ~AfterPass(last_close_price').investments[k].is_active
                /\ StrictlyBetween(investments[k], last_close_price')
                    => /\ Closures(trace', k) = {}
                       /\ AfterPass(last_close_price').investments[k].is_active ]_vars

\* C7 witness: a position was closed at a close exactly equal to a trigger
\* price
C7_Witness ==
    /\ kind = "margin"
    /\ \E k \in Rows :
        /\ Closures(trace, k) # {}
        /\ ~investments[k].is_active
        /\ AtTrigger(investments[k], last_close_price)
        /\ take_profit_percentage > stop_loss_percentage

\* C8: during MarginInvestor.invest the update pass has run exactly once for
\* every timestamp processed so far, in chronological order, and at a
\* timestamp with a decision it ran before the decision was acted on.
C8_PassAtEveryTimestamp ==
    (kind = "margin" /\ pc = "invest") =>
        /\ hist.passes = [i \in 1..(date - hist.start + 1) |-> hist.start + i - 1]
        /\ call.op = "invest_step" =>
            /\ trace # <<>>
            /\ trace[1].ev = "update"
            /\ Cardinality({i \in 1..Len(trace) : trace[i].ev = "update"}) = 1

\* C8 witness: an invest over three timestamps, with and without decisions
C8_Witness ==
    /\ kind = "margin"
    /\ pc = "invest"
    /\ Len(hist.passes) = 3
    /\ hist.executed # {}
    /\ call.dec = NoDecision

\* C9: in an update pass every active position is charged
\* fiat_committed*leverage*fiat_interest_rate (LONG) or
\* fiat_committed*leverage*asset_interest_rate (SHORT) with no affordability
\* check, and an inactive position is charged nothing, credited nothing and
\* left as it is; the balance changes by exactly these charges, the credits
\* of the closures and the debit of a trade opened afterwards.
C9_InterestOnActivePositions ==
    [][ PassStep =>
          /\ \A k \in Rows :
                IF investments[k].is_active
                THEN /\ Cardinality(EventsOf(trace', "interest", k)) = 1
                     /\ \A i \in EventsOf(trace', "interest", k) :
                            trace'[i].amount = StatedInterest(investments[k])
                ELSE /\ EventsOf(trace', "interest", k) = {}
                     /\ Closures(trace', k) = {}
                     /\ AfterPass(last_close_price').investments[k] = investments[k]
          /\ portfolio_size' = portfolio_size
                - SumStatedInterest(investments, 1)
                + SumEvents(trace', {"take_profit", "stop_loss"})
                - SumEvents(trace', {"opened"})
          /\ (\A k \in Rows : ~investments[k].is_active) =>
                AfterPass(last_close_price').portfolio_size = portfolio_size ]_vars

\* C9 witness: interest was charged on a SHORT and on a LONG position and the
\* balance is negative
C9_Witness ==
    /\ kind = "margin"
    /\ portfolio_size < 0
    /\ \E k \in Rows : /\ investments[k].investment_type = "SHORT"
                       /\ EventsOf(trace, "interest", k) # {}
    /\ \E k \in Rows : /\ investments[k].investment_type = "LONG"
                       /\ EventsOf(trace, "interest", k) # {}

\* C10: when take-profit or stop-loss fires for an active position, the
\* balance is credited fiat_committed*leverage plus
\* fiat_committed*leverage*(pct-1), pct the percentage that fired, whatever
\* the distance of the close from the trigger price, and the position becomes
\* inactive.
C10_ClosureCredit ==
    [][ PassStep =>
          /\ \A k \in Rows : \A i \in Closures(trace', k) :
                /\ investments[k].is_active
                /\ trace'[i].amount = StatedCredit(investments[k], PctOf(trace'[i]))
                /\ ~AfterPass(last_close_price').investments[k].is_active
          /\ \A k \in Rows :
                (investments[k].is_active /\ Closures(trace', k) = {})
                    => AfterPass(last_close_price').investments[k].is_active
          /\ AfterPass(last_close_price').portfolio_size = portfolio_size
                - SumEvents(trace', {"interest"})
                + SumEvents(trace', {"take_profit", "stop_loss"}) ]_vars

\* C10 witness: a position was closed at a close strictly beyond its trigger
\* price
C10_Witness ==
    /\ kind = "margin"
    /\ \E k \in Rows :
        /\ Closures(trace, k) # {}
        /\ ~investments[k].is_active
        /\ ~AtTrigger(investments[k], last_close_price)
        /\ \/ TakeProfitCondition(investments[k], last_close_price)
           \/ StopLossCondition(investments[k], last_close_price)

\* a step in which the MarginInvestor executed the trade of call'.dec
MarginExecuted ==
    TradeStep /\ kind = "margin" /\ ~Unaffordable

\* the position an executed trade records, labelled d
StatedPosition(d) ==
    [date |-> d,
     investment_type |-> IF call'.dec.action = BUY THEN "LONG" ELSE "SHORT",
     fiat_amount_invested |-> investment_size,
     asset_price |-> call'.close,
     leverage |-> call'.dec.strength,
     is_active |-> TRUE]

\* C11 as stated: an executed BUY (SELL) debits available_fiat by
\* investment_size*Strength and appends exactly one active LONG (SHORT)
\* position indexed by the timestamp of the decision, with entry_price the
\* last close, leverage the Strength and fiat_committed investment_size.
C11_AppendsAtDecisionTimestamp ==
    [][ MarginExecuted =>
          /\ portfolio_size' = AttemptFiat(call'.close)
                                    - investment_size * call'.dec.strength
          /\ investments' = Append(AttemptRows(call'.close),
                                   StatedPosition(call'.decided)) ]_vars

\* C11: an executed BUY (SELL) debits available_fiat by exactly
\* investment_size*Strength of the last decision and records exactly one
\* active LONG (SHORT) position with entry_price the last close, leverage the
\* Strength and fiat_committed investment_size (not scaled), indexed by the
\* last timestamp of the supplied price history: appended when the ledger
\* has no position under that timestamp, written over that position
\* otherwise; make_investment returns that one position.
C11_ExecutedMarginTrade ==
    [][ MarginExecuted =>
          LET rows == AttemptRows(call'.close)
              new == StatedPosition(call'.date)
              k == RowOf(rows, call'.date)
          IN  /\ portfolio_size' = AttemptFiat(call'.close)
                                        - investment_size * call'.dec.strength
              /\ investments' = IF k = 0
                                THEN Append(rows, new)
                                ELSE [rows EXCEPT ![k] = new]
              /\ call'.op = "make_investment" => ret'.rows = <<new>> ]_vars

\* C11 witness: a SELL of Strength 2 was executed: the SHORT position has
\* leverage 2 and fiat_committed investment_size, twice investment_size
\* was debited
C11_Witness ==
    /\ kind = "margin"
    /\ call.dec = [action |-> SELL, strength |-> 2]
    /\ \E i \in 1..Len(trace) :
            trace[i].ev = "opened" /\ trace[i].amount = 2 * investment_size
    /\ \E k \in Rows :
            /\ investments[k].date = call.date
            /\ investments[k].investment_type = "SHORT"
            /\ investments[k].leverage = 2
            /\ investments[k].fiat_amount_invested = investment_size
            /\ investments[k].is_active

\* the operations that return a valuation
Valuations == {"get_portfolio_value", "get_portfolio_value_final"}

\* notional plus unrealised profit or loss of position p at close c:
\* fiat_committed*leverage*(c/entry_price - 1) for a LONG,
\* fiat_committed*leverage*(1 - c/entry_price) for a SHORT
StatedPositionValue(p, c) ==
    LET notional == p.fiat_amount_invested * p.leverage
        atClose == (notional * c) \div p.asset_price
    IN  IF p.investment_type = "LONG"
        THEN notional + (atClose - notional)
        ELSE notional + (notional - atClose)

RECURSIVE SumStatedPositionValue(_, _, _)
SumStatedPositionValue(rows, k, c) ==
    IF k > Len(rows)
    THEN 0
    ELSE (IF rows[k].is_active THEN StatedPositionValue(rows[k], c) ELSE 0)
            + SumStatedPositionValue(rows, k + 1, c)

StatedMarginValue ==
    IF ~can_trade
    THEN 0
    ELSE portfolio_size + SumStatedPositionValue(investments, 1, last_close_price)

\* C12: MarginInvestor: get_portfolio_value() and get_portfolio_value_final()
\* return the same value, also as the value make_investment returns: 0 when
\* can_trade is false, otherwise available_fiat plus, for every active
\* position, its notional plus its unrealised profit or loss at the last
\* close; inactive positions add nothing.
C12_MarginValuation ==
    kind = "margin" =>
        /\ margin_get_portfolio_value(MarginSelf) = StatedMarginValue
        /\ margin_get_portfolio_value_final(MarginSelf) = StatedMarginValue
        /\ ret.op \in Valuations \cup {"make_investment"}
                => ret.value = StatedMarginValue

\* C12 witness: get_portfolio_value_final() was called while a position is
\* active at a close different from its entry price
C12_Witness ==
    /\ kind = "margin"
    /\ ret.op = "get_portfolio_value_final"
    /\ can_trade
    /\ \E k \in Rows :
            /\ investments[k].is_active
            /\ investments[k].leverage = 2
            /\ investments[k].asset_price # last_close_price
    /\ ret.value # portfolio_size

\* a step of SpotInvestor that executed the BUY / SELL of decision call'.dec
SpotExecuted ==
    TradeStep /\ kind = "spot" /\ ~Unaffordable

\* investment_size * (1 - fee), and the coins that amount x buys at close c
StatedNetOfFee ==
    (investment_size * (FeeScale - trading_fee)) \div FeeScale
StatedCoins(x, c) ==
    x \div c

\* the ledger row the claim states for the trade of this step
StatedTrade ==
    IF call'.dec.action = BUY
    THEN SpotRow(call'.date, -investment_size,
                 StatedCoins(StatedNetOfFee, call'.close))
    ELSE SpotRow(call'.date, investment_size,
                 -StatedCoins(investment_size, call'.close))

\* C13: an executed SpotInvestor BUY lowers fiat_balance by investment_size,
\* raises accumulated_coins by investment_size*(1 - fee)/close and records
\* {fiat_delta = -investment_size, coin_delta = +coins}; an executed SELL
\* lowers accumulated_coins by investment_size/close, raises fiat_balance by
\* investment_size*(1 - fee) and records {fiat_delta = +investment_size,
\* coin_delta = -investment_size/close}; close is the last close of the
\* supplied price history.
C13_SpotExecutedTrade ==
    [][SpotExecuted =>
        /\ portfolio_size' - portfolio_size =
                IF call'.dec.action = BUY
                THEN -investment_size ELSE StatedNetOfFee
        /\ accumulated_coins' - accumulated_coins = StatedTrade.coin_amount
        /\ last_close' = call'.close
        /\ IF call'.op = "make_investment"
           THEN ret'.rows = <<StatedTrade>>
           ELSE ledger' = Append(ledger, StatedTrade)]_vars

\* C13 witness: a SELL was executed at a close that differs from the first
\* close of the supplied price history, with a fee in force
C13_Witness ==
    /\ kind = "spot"
    /\ call.op = "make_investment"
    /\ call.dec.action = SELL
    /\ call.close = 4
    /\ trading_fee > 0
    /\ ret.rows = <<SpotRow(call.date, investment_size, -(investment_size \div 4))>>
    /\ accumulated_coins = (investment_size - TradingFee) \div 2 - investment_size \div 4
    /\ \E e \in EventsOf(trace, "sold", 0) : TRUE

\* fiat_balance + accumulated_coins * last_close
StatedMarkToMarket ==
    portfolio_size + accumulated_coins * last_close

\* fiat_balance + accumulated_coins * last_close * (1 - fee), in units of
\* 1/FeeScale
StatedLiquidation ==
    portfolio_size * FeeScale
        + accumulated_coins * last_close * (FeeScale - trading_fee)

\* C14: SpotInvestor, once a close is known: get_portfolio_value() returns
\* fiat_balance + accumulated_coins*last_close, get_portfolio_value_final()
\* returns fiat_balance + accumulated_coins*last_close*(1 - fee); the final
\* value never exceeds the mark-to-market value and equals it when no coins
\* are held.  (Before the first close both queries raise TypeError.)
C14_SpotValuation ==
    kind = "spot" =>
        /\ ret.op \in Valuations => (ret.raised <=> last_close = NoPrice)
        /\ ret.op = "get_portfolio_value" /\ ~ret.raised
                => ret.value = StatedMarkToMarket
        /\ ret.op = "get_portfolio_value_final" /\ ~ret.raised
                => ret.value = StatedLiquidation
        /\ last_close # NoPrice =>
                /\ spot_get_portfolio_value_final(SpotSelf)
                        <= spot_get_portfolio_value(SpotSelf) * FeeScale
                /\ accumulated_coins = 0 =>
                        spot_get_portfolio_value_final(SpotSelf)
                            = spot_get_portfolio_value(SpotSelf) * FeeScale

\* C14 witness: get_portfolio_value_final() priced the coins held below
\* their mark-to-market value
C14_Witness ==
    /\ kind = "spot"
    /\ ret.op = "get_portfolio_value_final"
    /\ ~ret.raised
    /\ accumulated_coins > 0
    /\ trading_fee > 0
    /\ ret.value < StatedMarkToMarket * FeeScale

\* a step that is a call of get_portfolio_value / get_portfolio_value_final
QueryStep ==
    /\ ret'.op \in Valuations
    /\ steps' = steps
    /\ pc' = "idle" /\ pc = "idle"

\* C15: for both investors get_portfolio_value() and
\* get_portfolio_value_final() change no state (balances, coins, positions
\* and their is_active flags, can_trade, last close, options), and a query
\* repeated with no other call in between returns what it returned before;
\* for MarginInvestor the two queries also return the same value as each
\* other.
C15_QueriesArePure ==
    [][QueryStep =>
        /\ UNCHANGED <<portfolio_size, accumulated_coins, investments,
                       can_trade, last_close, last_close_price,
                       investment_size, trading_fee, asset_interest_rate,
                       fiat_interest_rate, take_profit_percentage,
                       stop_loss_percentage, ledger, date>>
        /\ ret.op = ret'.op => ret' = ret
        /\ kind = "margin" /\ ret.op \in Valuations => ret'.value = ret.value]_vars

\* C15 witness: get_portfolio_value() returned while a position is active
\* and a further update pass would charge interest
C15_Witness ==
    /\ kind = "margin"
    /\ ret.op = "get_portfolio_value"
    /\ can_trade
    /\ \E k \in Rows : investments[k].is_active
    /\ ret.value = StatedMarginValue
    /\ update_portfolio_value(MarginSelf).portfolio_size < portfolio_size

\* a step that handed a decision outside ActionSimple to make_investment
InvalidStep ==
    /\ steps' = steps + 1
    /\ call'.op \in {"invest_step", "make_investment"}
    /\ call'.dec.action \notin ActionSimple \cup {NoDecision.action}

\* C16: SpotInvestor.make_investment given a last decision whose Action is
\* outside {BUY, SELL, HOLD} raises; no ledger row is produced and
\* fiat_balance and accumulated_coins are unchanged.  Inside invest the
\* error ends the call, which returns no ledger.
C16_SpotInvalidActionRaises ==
    [][InvalidStep /\ kind = "spot" =>
        /\ ret'.raised
        /\ ret'.rows = <<>>
        /\ ledger' = <<>>
        /\ pc' = "idle"
        /\ UNCHANGED <<portfolio_size, accumulated_coins>>]_vars

\* C16 witness: make_investment raised on an invalid action while coins
\* were held, after recording the close of the call
C16_Witness ==
    /\ kind = "spot"
    /\ call.op = "make_investment"
    /\ call.dec.action = INVALID
    /\ ret.op = "make_investment"
    /\ ret.raised
    /\ accumulated_coins > 0
    /\ last_close = call.close

\* C17: MarginInvestor.make_investment, and with it MarginInvestor.invest,
\* given a last decision whose Action is outside {BUY, SELL, HOLD} raises
\* instead of absorbing it as a no-op.
C17_MarginInvalidActionRaises ==
    [][InvalidStep /\ kind = "margin" =>
        IF call'.op = "make_investment"
        THEN ret'.op = "make_investment" /\ ret'.raised
        ELSE ret'.op = "invest" /\ ret'.raised /\ pc' = "idle"]_vars

\* what MarginInvestor does with such a decision: the update pass runs, no
\* position is opened, nothing is raised, and invest goes on
C17_MarginInvalidActionAbsorbed ==
    [][InvalidStep /\ kind = "margin" =>
        /\ ~ret'.raised
        /\ pc' = pc
        /\ ~HasEvent(trace', "opened") /\ ~HasEvent(trace', "rejected")
        /\ HasEvent(trace', "update")
        /\ call'.op = "make_investment" => ret'.rows = <<>>]_vars

\* a MarginInvestor was handed an invalid action by make_investment and
\* returned a valuation
C17_Absorbed ==
    /\ kind = "margin"
    /\ call.op = "make_investment"
    /\ call.dec.action = INVALID
    /\ ret.op = "make_investment"
    /\ ~ret.raised
    /\ ret.rows = <<>>

\* a step that is a call of set_env_parameters
SetEnvStep ==
    /\ steps' = steps + 1
    /\ call'.op = "set_env_parameters"

\* the value of a recognised option after set_env_parameters(config)
StatedOption(config, key, current) ==
    IF key \in DOMAIN config THEN config[key] ELSE current

TradeEvents(tr) ==
    {i \in 1..Len(tr) : tr[i].ev \in {"opened", "bought", "sold", "rejected"}}

\* a step that handed price history and decisions to make_investment
DecisionStep ==
    /\ steps' = steps + 1
    /\ call'.op \in {"invest_step", "make_investment"}

\* C19: make_investment acts at most once per call, on the last decision of
\* the slice and at the last close of the price history; decisions earlier
\* in the slice are not executed again and at most one ledger row is
\* produced; under MarginInvestor.invest a decision is executed only at
\* its own timestamp, hence at most once.
C19_AtMostOneActionPerCall ==
    [][DecisionStep =>
        /\ Cardinality(TradeEvents(trace')) <= 1
        /\ TradeEvents(trace') # {} <=> call'.dec.action \in {BUY, SELL}
        /\ HasEvent(trace', "bought") => call'.dec.action = BUY
        /\ HasEvent(trace', "sold") => call'.dec.action = SELL
        /\ call'.op = "make_investment" /\ ~ret'.raised => Len(ret'.rows) <= 1
        /\ call'.op = "invest_step" => call'.decided \in {0, call'.date}
        /\ IF kind = "margin"
           THEN /\ Len(investments') <= Len(investments) + 1
                /\ portfolio_size' \in
                        {AfterPass(call'.close).portfolio_size,
                         AfterPass(call'.close).portfolio_size
                            - investment_size * call'.dec.strength}
                /\ HasEvent(trace', "opened") =>
                        \E k \in 1..Len(investments') :
                            LET p == investments'[k]
                            IN  /\ p.date = call'.date
                                /\ p.asset_price = call'.close
                                /\ p.leverage = call'.dec.strength
                                /\ p.investment_type = "LONG" <=> call'.dec.action = BUY
           ELSE /\ Len(ledger') <= Len(ledger) + 1
                /\ call'.dec # NoDecision => last_close' = call'.close
                /\ portfolio_size' - portfolio_size
                        \in {0, -investment_size, StatedNetOfFee}]_vars

\* C19 witness: make_investment was handed a slice of two decisions, an
\* executed BUY at the earlier timestamp and a SELL at the last one, and
\* opened the SHORT only
C19_Witness ==
    /\ kind = "margin"
    /\ call.op = "make_investment"
    /\ call.dec.action = SELL
    /\ call.decided = call.date
    /\ Len(investments) = 2
    /\ investments[1].investment_type = "LONG"
    /\ investments[1].date = call.date - 1
    /\ investments[2].investment_type = "SHORT"
    /\ Cardinality(TradeEvents(trace)) = 1
    /\ ret.rows = <<investments[2]>>

\* C20: once can_trade is false a MarginInvestor trades no more: no later
\* BUY / SELL opens a position, adds a row or debits available_fiat, even
\* when available_fiat has become sufficient again.
C20_NoTradeAfterMarginCall ==
    [][TradeStep /\ kind = "margin" /\ ~can_trade =>
        /\ ~HasEvent(trace', "opened")
        /\ ret'.rows = <<>>
        /\ portfolio_size' = AfterPass(call'.close).portfolio_size
        /\ \A k \in 1..Len(investments') :
                investments'[k].is_active =>
                    k \in Rows /\ investments[k].is_active
                        /\ investments'[k].date = investments[k].date]_vars

\* what MarginInvestor does instead: can_trade is only read by the
\* valuation; a BUY / SELL that can be afforded after the update pass is
\* executed whatever can_trade is
C20_TradesAfterMarginCall ==
    [][MarginExecuted /\ ~can_trade =>
        /\ HasEvent(trace', "opened")
        /\ ~can_trade'
        /\ portfolio_size' = AfterPass(call'.close).portfolio_size
                                - investment_size * call'.dec.strength]_vars

\* a position was opened by a MarginInvestor whose can_trade was false
\* before the call and still is
C20_OpenedAfterMarginCall ==
    /\ kind = "margin"
    /\ ~can_trade
    /\ HasEvent(trace, "opened")
    /\ HasEvent(trace, "take_profit") \/ HasEvent(trace, "stop_loss")
    /\ \E k \in Rows : investments[k].is_active /\ investments[k].date = call.date
    /\ margin_get_portfolio_value(MarginSelf) = 0

\* the credit the claim states for an active position p in a pass at close
\* c: nothing unless take-profit or stop-loss fires
StatedClosureCredit(p, c) ==
    IF TakeProfitCondition(p, c)
    THEN StatedCredit(p, take_profit_percentage)
    ELSE IF StopLossCondition(p, c)
    THEN StatedCredit(p, stop_loss_percentage)
    ELSE 0

RECURSIVE SumStatedClosureCredit(_, _, _)
SumStatedClosureCredit(rows, k, c) ==
    IF k > Len(rows)
    THEN 0
    ELSE (IF rows[k].is_active THEN StatedClosureCredit(rows[k], c) ELSE 0)
            + SumStatedClosureCredit(rows, k + 1, c)

\* available_fiat at the end of an update pass at close c: every active
\* position charged, every closure credited
StatedEndOfPass(c) ==
    portfolio_size - SumStatedInterest(investments, 1)
        + SumStatedClosureCredit(investments, 1, c)

\* +amount for a closure, -amount for an interest charge or an opening
Signed(e) ==
    IF e.ev \in {"take_profit", "stop_loss"} THEN e.amount
    ELSE IF e.ev \in {"interest", "opened"} THEN 0 - e.amount
    ELSE 0

RECURSIVE SumSigned(_, _)
SumSigned(tr, n) ==
    IF n = 0 THEN 0 ELSE Signed(tr[n]) + SumSigned(tr, n - 1)

\* the balance after the first n events of the trace of the last call
BalanceAfter(n) ==
    portfolio_size - SumSigned(trace, Len(trace)) + SumSigned(trace, n)

\* C21: MarginInvestor: can_trade becomes false exactly at the end of an
\* update pass whose final available_fiat (all interest charged, all
\* closures of the pass credited) is <= 0; a balance <= 0 part-way through
\* a pass, or between an opening and the next pass, does not make it false,
\* and no step other than an update pass changes can_trade.
C21_CanTradeSetAtEndOfPass ==
    [][kind = "margin" =>
        /\ can_trade' <=>
                /\ can_trade
                /\ ~(PassStep /\ StatedEndOfPass(last_close_price') <= 0)
        /\ ~PassStep => can_trade' = can_trade]_vars

\* C21 witness: in the last pass the balance was <= 0 after an interest
\* charge and a closure of the same pass restored it; can_trade is true
C21_Witness ==
    /\ kind = "margin"
    /\ can_trade
    /\ HasEvent(trace, "update")
    /\ \E n \in 1..Len(trace) :
            /\ trace[n].ev = "interest"
            /\ BalanceAfter(n) <= 0
            /\ \E m \in (n + 1)..Len(trace) :
                    /\ trace[m].ev \in {"take_profit", "stop_loss"}
                    /\ BalanceAfter(m) > 0

\* C22: under MarginInvestor.invest a position opened at timestamp i is
\* charged no interest at i, once at every later timestamp while it is
\* active, the timestamp j of its closure included, and never after j: a
\* position still active at the current timestamp d has paid d - i charges,
\* a position closed at j has paid j - i.
C22_InterestTiming ==
    (kind = "margin" /\ pc = "invest") =>
        \A i \in hist.executed :
            LET p == investments[RowOf(investments, i)]
            IN  /\ RowOf(investments, i) # 0
                /\ IF p.is_active
                   THEN hist.closed[i] = 0 /\ hist.charged[i] = date - i
                   ELSE /\ hist.closed[i] \in (i + 1)..date
                        /\ hist.charged[i] = hist.closed[i] - i

\* C22 witness: a position opened at the first timestamp of invest stayed
\* active at the second and was closed at the third, after two charges
C22_Witness ==
    /\ kind = "margin"
    /\ pc = "invest"
    /\ 1 \in hist.executed
    /\ ~investments[RowOf(investments, 1)].is_active
    /\ hist.closed[1] = 3
    /\ hist.charged[1] = 2

\* invest returns after its loop processed at least one timestamp; call
\* still holds the last timestamp and close of the price series
InvestReturned ==
    /\ pc = "invest" /\ pc' = "idle"
    /\ ~ret'.raised
    /\ call.op = "invest_step"

\* the mark-to-market value at close c of fiat, coins and positions
StatedValueAt(c, fiat, coins, rows, trading) ==
    IF kind = "spot"
    THEN fiat + coins * c
    ELSE IF ~trading
    THEN 0
    ELSE fiat + SumStatedPositionValue(rows, 1, c)

\* C23: for both investors, after invest(price_series, decisions) returns,
\* get_portfolio_value() values holdings and open positions at the close of
\* the last timestamp of price_series, also when the last timestamps carry
\* no decision.
C23_ValuedAtLastClose ==
    [][InvestReturned =>
        IF kind = "spot"
        THEN /\ last_close' # NoPrice
             /\ spot_get_portfolio_value(SpotSelf)' =
                    StatedValueAt(call.close, portfolio_size', accumulated_coins',
                                  investments', can_trade')
        ELSE margin_get_portfolio_value(MarginSelf)' =
                    StatedValueAt(call.close, portfolio_size', accumulated_coins',
                                  investments', can_trade')]_vars

\* the part that holds: MarginInvestor stores the close of every timestamp,
\* SpotInvestor the close of the last timestamp that carries a decision
C23_MarginValuedAtLastClose ==
    [][InvestReturned =>
        IF kind = "margin"
        THEN /\ last_close_price' = call.close
             /\ margin_get_portfolio_value(MarginSelf)' =
                    StatedValueAt(call.close, portfolio_size', accumulated_coins',
                                  investments', can_trade')
        ELSE call.dec # NoDecision => last_close' = call.close]_vars

\* a SpotInvestor holds coins while invest is at a timestamp without
\* decision whose close differs from the close it stored
C23_StaleClose ==
    /\ kind = "spot"
    /\ pc = "invest"
    /\ call.op = "invest_step"
    /\ call.dec = NoDecision
    /\ accumulated_coins > 0
    /\ last_close # call.close

\* row k of the ledger is after the step what it was before, but for an
\* is_active flag that went from true to false
RowKept(k) ==
    /\ k <= Len(investments')
    /\ investments'[k].date = investments[k].date
    /\ investments'[k].investment_type = investments[k].investment_type
    /\ investments'[k].fiat_amount_invested = investments[k].fiat_amount_invested
    /\ investments'[k].asset_price = investments[k].asset_price
    /\ investments'[k].leverage = investments[k].leverage
    /\ investments'[k].is_active => investments[k].is_active

\* C24: MarginInvestor: across any sequence of invest / make_investment
\* calls a position record once appended is never deleted or replaced, its
\* type, fiat_committed, entry_price and leverage never change, and
\* is_active only changes from true to false, so its notional is returned
\* to available_fiat at most once.
C24_RowsAreNeverReplaced ==
    [][kind = "margin" =>
        /\ \A k \in Rows : RowKept(k)
        /\ \A k \in Rows : Closures(trace', k) # {} => investments[k].is_active]_vars

\* the part that holds: every row is kept by a step that opens no position
\* under a timestamp that already labels a row, and a closure is credited
\* only for a position that was active
C24_RowsKeptUnlessRelabelled ==
    [][kind = "margin" =>
        /\ \A k \in Rows :
                ~(HasEvent(trace', "opened") /\ investments[k].date = call'.date)
                    => RowKept(k)
        /\ \A k \in Rows : Closures(trace', k) # {} => investments[k].is_active]_vars

\* a position was opened under the timestamp of a closed position of the
\* same ledger, which it replaced: the row is active again
C24_Replaced ==
    /\ kind = "margin"
    /\ HasEvent(trace, "opened")
    /\ Closures(trace, RowOf(investments, call.date)) # {}
    /\ investments[RowOf(investments, call.date)].is_active

\* the SpotInvestor after the call of this step, had the decision acted on
\* carried Strength x instead
WithStrength(x) ==
    spot_make_investment(
        SpotSelf,
        <<PriceRow(call'.date, call'.close)>>,
        <<ActionRow(call'.decided, [call'.dec EXCEPT !.strength = x])>>)

\* C25: SpotInvestor does not consult Strength: the same call with any
\* other Strength produces the same ledger rows, the same fiat_balance and
\* accumulated_coins, and the same valuations.
C25_SpotIgnoresStrength ==
    [][(kind = "spot" /\ DecisionStep /\ call'.dec # NoDecision) =>
        \A x \in Strengths \cup {0} :
            LET other == WithStrength(x)
            IN  /\ other.raised = (call'.dec.action = INVALID)
                /\ other.portfolio_size = portfolio_size'
                /\ other.accumulated_coins = accumulated_coins'
                /\ other.last_close = last_close'
                /\ spot_get_portfolio_value(other) = spot_get_portfolio_value(SpotSelf)'
                /\ spot_get_portfolio_value_final(other)
                        = spot_get_portfolio_value_final(SpotSelf)'
                /\ ~other.raised =>
                        IF call'.op = "make_investment"
                        THEN ret'.rows = other.returned
                        ELSE ledger' = SpotConcat(ledger, other.returned)]_vars

\* C25 witness: a BUY of Strength 2 and a BUY of Strength 1 were executed
\* by one invest call and recorded the same amounts
C25_Witness ==
    /\ kind = "spot"
    /\ pc = "invest"
    /\ call.dec = [action |-> BUY, strength |-> 2]
    /\ Len(ledger) = 2
    /\ ledger[1].fiat_amount_invested = -investment_size
    /\ ledger[2].fiat_amount_invested = -investment_size
    /\ portfolio_size = SpotPortfolioSize - 2 * investment_size

\* C26: MarginInvestor does not validate leverage: a BUY / SELL whose
\* Strength is <= 0 raises nothing and is not turned down for that reason;
\* it opens an active position exactly when available_fiat >=
\* investment_size*Strength; Strength 0 leaves available_fiat unchanged, a
\* negative Strength raises it by investment_size*|Strength|.
C26_NoLeverageValidation ==
    [][(TradeStep /\ kind = "margin" /\ call'.dec.strength <= 0) =>
        LET fiat == AttemptFiat(call'.close)
            leverage == call'.dec.strength
            opens == fiat >= investment_size * leverage
        IN  /\ ~ret'.raised
            /\ HasEvent(trace', "opened") <=> opens
            /\ ~opens => portfolio_size' = fiat /\ investments' = AttemptRows(call'.close)
            /\ opens =>
                /\ \E k \in 1..Len(investments') :
                        /\ investments'[k].date = call'.date
                        /\ investments'[k].is_active
                        /\ investments'[k].leverage = leverage
                        /\ investments'[k].fiat_amount_invested = investment_size
                /\ leverage = 0 => portfolio_size' = fiat
                /\ leverage < 0 => portfolio_size' = fiat + investment_size * (0 - leverage)]_vars

\* C26 witness: a SELL of Strength -1 opened an active SHORT and raised the
\* balance above the initial portfolio size
C26_Witness ==
    /\ kind = "margin"
    /\ call.dec = [action |-> SELL, strength |-> -1]
    /\ HasEvent(trace, "opened")
    /\ \E k \in Rows :
            /\ investments[k].is_active
            /\ investments[k].investment_type = "SHORT"
            /\ investments[k].leverage = -1
    /\ portfolio_size > MarginPortfolioSize

\* the sum of fiat_committed*leverage over the active rows k..Len(rows)
RECURSIVE SumActiveNotional(_, _)
SumActiveNotional(rows, k) ==
    IF k > Len(rows)
    THEN 0
    ELSE (IF rows[k].is_active
          THEN rows[k].fiat_amount_invested * rows[k].leverage ELSE 0)
            + SumActiveNotional(rows, k + 1)

\* the realised profit or loss, fiat_committed*leverage*(pct - 1), of the
\* active rows k..Len(rows) that a pass at close c closes
RECURSIVE SumStatedRealised(_, _, _)
SumStatedRealised(rows, k, c) ==
    IF k > Len(rows)
    THEN 0
    ELSE (IF /\ rows[k].is_active
             /\ TakeProfitCondition(rows[k], c) \/ StopLossCondition(rows[k], c)
          THEN StatedClosureCredit(rows[k], c)
                - rows[k].fiat_amount_invested * rows[k].leverage
          ELSE 0)
            + SumStatedRealised(rows, k + 1, c)

\* what a step adds to the interest charged so far and to the realised
\* profit or loss of closed positions
StepInterest ==
    IF PassStep THEN SumStatedInterest(investments, 1) ELSE 0
StepRealised ==
    IF PassStep THEN SumStatedRealised(investments, 1, last_close_price') ELSE 0

\* a step that opens a position under a timestamp that labels a position
\* still active after the pass of the step
RelabelsActive ==
    /\ HasEvent(trace', "opened")
    /\ \E k \in Rows :
            /\ investments[k].date = call'.date
            /\ AfterPass(call'.close).investments[k].is_active

\* C27: MarginInvestor conservation: available_fiat plus the sum of
\* fiat_committed*leverage over the active positions equals the initial
\* portfolio size minus the interest charged so far plus the realised
\* profit or loss of the closed positions; stated for the initial state and
\* as what every step adds to both sides.  Opening a position leaves
\* get_portfolio_value() at the opening timestamp unchanged while can_trade
\* is true.
C27_Conservation ==
    [][kind = "margin" =>
        /\ (steps = 0 /\ investments = <<>>) => portfolio_size = MarginPortfolioSize
        /\ (portfolio_size' + SumActiveNotional(investments', 1))
                - (portfolio_size + SumActiveNotional(investments, 1))
            = StepRealised - StepInterest
        /\ (HasEvent(trace', "opened") /\ can_trade') =>
                margin_get_portfolio_value(MarginSelf)'
                    = margin_get_portfolio_value(AfterPass(call'.close))]_vars

\* the part that holds: the same, for every step but one that opens a
\* position under the timestamp of a position that is still active
C27_ConservationUnlessRelabelled ==
    [][(kind = "margin" /\ ~RelabelsActive) =>
        /\ (steps = 0 /\ investments = <<>>) => portfolio_size = MarginPortfolioSize
        /\ (portfolio_size' + SumActiveNotional(investments', 1))
                - (portfolio_size + SumActiveNotional(investments, 1))
            = StepRealised - StepInterest
        /\ (HasEvent(trace', "opened") /\ can_trade') =>
                margin_get_portfolio_value(MarginSelf)'
                    = margin_get_portfolio_value(AfterPass(call'.close))]_vars

\* an active position was written over by a position opened under its
\* timestamp: its notional is neither in the balance nor in the ledger
C27_NotionalLost ==
    /\ kind = "margin"
    /\ pc = "invest"
    /\ ~hist.fresh
    /\ HasEvent(trace, "opened")
    /\ EventsOf(trace, "interest", RowOf(investments, call.date)) # {}
    /\ Closures(trace, RowOf(investments, call.date)) = {}

\* sums over the rows k..Len(rows) of a spot ledger
RECURSIVE SumCoinDelta(_, _)
SumCoinDelta(rows, k) ==
    IF k > Len(rows) THEN 0 ELSE rows[k].coin_amount + SumCoinDelta(rows, k + 1)

RECURSIVE SumFiatDelta(_, _)
SumFiatDelta(rows, k) ==
    IF k > Len(rows) THEN 0 ELSE rows[k].fiat_amount_invested + SumFiatDelta(rows, k + 1)

\* the rows of a SELL: fiat_delta > 0
SellRows(rows) ==
    {k \in 1..Len(rows) : rows[k].fiat_amount_invested > 0}

\* investment_size * fee
StatedFee ==
    (investment_size * trading_fee) \div FeeScale

\* C28: after invest on a fresh SpotInvestor, accumulated_coins is the sum
\* of coin_delta over the returned rows, and fiat_balance is the initial
\* portfolio size plus the sum of fiat_delta over the rows minus
\* investment_size*fee for every SELL row.
C28_SpotLedgerMatchesState ==
    [][(kind = "spot" /\ pc = "invest" /\ pc' = "idle" /\ hist.fresh /\ ~ret'.raised) =>
        /\ ret'.op = "invest"
        /\ accumulated_coins' = SumCoinDelta(ret'.rows, 1)
        /\ portfolio_size' = SpotPortfolioSize + SumFiatDelta(ret'.rows, 1)
                - StatedFee * Cardinality(SellRows(ret'.rows))]_vars

\* C28 witness: invest on a fresh SpotInvestor returned a ledger with a BUY
\* row and a SELL row, the fee being positive
C28_Witness ==
    /\ kind = "spot"
    /\ ret.op = "invest"
    /\ ~ret.raised
    /\ Len(ret.rows) = 2
    /\ Cardinality(SellRows(ret.rows)) = 1
    /\ trading_fee > 0
    /\ accumulated_coins = SumCoinDelta(ret.rows, 1)
    /\ portfolio_size = SpotPortfolioSize - StatedFee

\* the mark-to-market value of fiat and coins at close c
StatedValueAtPrice(c, fiat, coins) ==
    fiat + coins * c

\* a step of SpotInvestor that handed a decision to make_investment and
\* did not raise
SpotDecided ==
    /\ kind = "spot"
    /\ DecisionStep
    /\ call'.dec # NoDecision
    /\ ~ret'.raised

\* the step executed a BUY or a SELL
SpotTraded ==
    HasEvent(trace', "bought") \/ HasEvent(trace', "sold")

\* C29: every executed BUY or SELL of SpotInvestor lowers the
\* mark-to-market value at the trade price by exactly investment_size*fee
\* compared with the value at that price just before the trade, HOLD and
\* rejected trades leave it unchanged; at an unchanged price
\* get_portfolio_value() does not rise; and with fee > 0 a SELL at the
\* price of the single BUY that bought the coins held is rejected.
C29_SpotTradingCost ==
    [][SpotDecided =>
        /\ last_close' = call'.close
        /\ StatedValueAtPrice(call'.close, portfolio_size', accumulated_coins')
             = StatedValueAtPrice(call'.close, portfolio_size, accumulated_coins)
                - (IF SpotTraded THEN StatedFee ELSE 0)
        /\ SpotTraded <=> (call'.dec.action \in {BUY, SELL} /\ ~Unaffordable)
        /\ last_close = call'.close =>
              spot_get_portfolio_value(SpotSelf)' <= spot_get_portfolio_value(SpotSelf)
        /\ ( /\ call'.dec.action = SELL
             /\ trading_fee > 0
             /\ last_close = call'.close
             /\ accumulated_coins = StatedCoins(StatedNetOfFee, last_close) )
            => /\ HasEvent(trace', "rejected")
               /\ UNCHANGED <<portfolio_size, accumulated_coins>>]_vars

\* C29 witness: from zero holdings a BUY and then a SELL at the same price
\* with fee > 0; the SELL was rejected and the value at that price is the
\* initial value less one fee
C29_Witness ==
    /\ kind = "spot"
    /\ trading_fee > 0
    /\ call.dec # NoDecision
    /\ call.dec.action = SELL
    /\ HasEvent(trace, "rejected")
    /\ last_close = call.close
    /\ accumulated_coins = StatedCoins(StatedNetOfFee, last_close)
    /\ portfolio_size = SpotPortfolioSize - investment_size
    /\ spot_get_portfolio_value(SpotSelf) = SpotPortfolioSize - StatedFee

\* a pass of make_investment that directly follows set_env_parameters (pure
\* queries apart): the positions active before it were opened before the
\* change
PassAfterSetEnv ==
    PassStep /\ call'.op = "make_investment" /\ call'.reconfigured

\* C30: MarginInvestor computes trigger prices, realised P&L and interest
\* from the configuration in force at the pass: in a pass that follows
\* set_env_parameters every position opened before the change is charged
\* interest at the rate now set, closes exactly when the close reaches a
\* trigger price of the percentages now set, and is paid out at the
\* percentage now set.
C30_ConfigurationInForce ==
    [][PassAfterSetEnv =>
        /\ UNCHANGED <<take_profit_percentage, stop_loss_percentage,
                       asset_interest_rate, fiat_interest_rate>>
        /\ \A k \in Rows : investments[k].is_active =>
            /\ Cardinality(EventsOf(trace', "interest", k)) = 1
            /\ \A i \in EventsOf(trace', "interest", k) :
                    trace'[i].amount = StatedInterest(investments[k])
            /\ Closures(trace', k) # {}
                    <=> \/ TakeProfitCondition(investments[k], call'.close)
                        \/ StopLossCondition(investments[k], call'.close)
            /\ \A i \in Closures(trace', k) :
                    /\ trace'[i].amount = StatedClosureCredit(investments[k], call'.close)
                    /\ trace'[i].ev = "take_profit"
                            <=> TakeProfitCondition(investments[k], call'.close)
            /\ investments'[k].is_active \/ Closures(trace', k) # {}
                    \/ investments'[k].date = call'.date]_vars

\* C30 witness: a pass after set_env_parameters closed a position opened
\* before the change at the take-profit percentage now set, crediting
\* another amount than the percentage of the constructor would have
C30_Witness ==
    /\ kind = "margin"
    /\ call.op = "make_investment"
    /\ call.reconfigured
    /\ take_profit_percentage # DefaultTakeProfitPercentage
    /\ \E k \in Rows, i \in 1..Len(trace) :
            /\ trace[i].ev = "take_profit"
            /\ trace[i].row = k
            /\ trace[i].amount = StatedCredit(investments[k], take_profit_percentage)
            /\ trace[i].amount # StatedCredit(investments[k], DefaultTakeProfitPercentage)


====
